---- MODULE Spec2Model ----
(***************************************************************************)
(* Model of src/main.py: the directory -> FHIR store synchronisation.      *)
(*                                                                         *)
(* One behaviour is one call of sync_biobanks, sync_networks or            *)
(* sync_collections: a single POST of the fixed GraphQL query, the         *)
(* builder (populate_*_from_json) applied to the decoded response, and one *)
(* upload call per entity the builder returned.                            *)
(*                                                                         *)
(* JSON values are tagged records, so that Python's distinction between a  *)
(* missing key, a key holding null and a key holding a mapping is kept:    *)
(*   [t |-> "null"]            None / JSON null                            *)
(*   [t |-> "str", s |-> ..]   a string                                    *)
(*   [t |-> "num", n |-> ..]   an integer                                  *)
(*   [t |-> "obj", o |-> f]    a mapping; DOMAIN f is its key set          *)
(*   [t |-> "arr", a |-> q]    a list                                      *)
(* A Python exception is [type, line]: the exception class and the line of *)
(* src/main.py that raises it.                                             *)
(***************************************************************************)
EXTENDS Integers, Sequences, FiniteSets, TLC

\* Longest source array of a fetched response.
MaxRecords == 3
\* Longest nested list (sex, materials, quality) of a single record.
MaxList == 2

(***************************************************************************)
(* JSON values and the Python operations main.py applies to them.          *)
(***************************************************************************)
Null == [t |-> "null"]
Str(s) == [t |-> "str", s |-> s]
Num(n) == [t |-> "num", n |-> n]
Obj(f) == [t |-> "obj", o |-> f]
Arr(q) == [t |-> "arr", a |-> q]

\* The literal {} and [] defaults of the .get calls.
EmptyObj == Obj([k \in {} |-> Null])
EmptyArr == Arr(<<>>)

NoExc == [type |-> "none", line |-> 0]
Raise(type, line) == [type |-> type, line |-> line]

\* Only a dict has .get: on None, a list or a string `x.get(...)` raises
\* AttributeError.
HasGet(v) == v.t = "obj"

\* dict.get(key, default): the stored value when the key is present, even
\* when that value is None; the default only when the key is missing.
dict_get(v, key, default) == IF key \in DOMAIN v.o THEN v.o[key] ELSE default

\* `for x in v` / a comprehension over v: None and numbers are not iterable.
Iterable(v) == v.t = "arr"

\* Python truthiness, as used by `if name` and `if x.get("name")`.
Truthy(v) ==
    CASE v.t = "null" -> FALSE
      [] v.t = "str" -> v.s # ""
      [] v.t = "num" -> v.n # 0
      [] v.t = "obj" -> DOMAIN v.o # {}
      [] v.t = "arr" -> v.a # <<>>

\* json.dumps then json.loads (sync_collections hands the builder a string):
\* the text form of a decoded JSON value, and its decoding.
json_dumps(v) == [text |-> v]
json_loads(txt) == txt.text

\* str.upper() on the tokens of the model's alphabet.
Upper(s) ==
    CASE s = "female" -> "FEMALE"
      [] s = "male" -> "MALE"
      [] s = "unknown" -> "UNKNOWN"
      [] OTHER -> s

\* Index of the first element of q satisfying Bad, 0 when there is none.
FirstIndex(q, Bad(_)) ==
    IF \E i \in 1..Len(q) : Bad(q[i])
    THEN CHOOSE i \in 1..Len(q) : Bad(q[i]) /\ \A j \in 1..(i - 1) : ~Bad(q[j])
    ELSE 0

\* [f(x) for x in q]
MapSeq(q, f(_)) == [i \in 1..Len(q) |-> f(q[i])]

(***************************************************************************)
(* The enumerations of miabis_model that main.py indexes by member name.   *)
(***************************************************************************)
GenderNames == {"MALE", "FEMALE", "OTHER", "UNKNOWN"}
StorageTemperatureNames ==
    {"TEMPERATURE_2_TO_10", "TEMPERATURE_18_TO_35", "TEMPERATURE_60_TO_85",
     "TEMPERATURE_GN", "TEMPERATURE_LN", "TEMPERATURE_ROOM", "TEMPERATURE_OTHER"}

\* Enum[key]: the member, or KeyError when key names no member (a key that
\* is not a string names none).
IsMember(names, v) == v.t = "str" /\ v.s \in names

(***************************************************************************)
(* populate_collection_from_json, the body of its loop (lines 20-53): the  *)
(* statements in source order, the first one that raises ends the builder. *)
(***************************************************************************)

\* Line 32, one element of the comprehension
\*   [StorageTemperature[st.get("name")] for st in sample_types if st.get("name")]
material_item_exc(st) ==
    IF ~HasGet(st) THEN Raise("AttributeError", 32)
    ELSE IF Truthy(dict_get(st, "name", Null))
            /\ ~IsMember(StorageTemperatureNames, dict_get(st, "name", Null))
         THEN Raise("KeyError", 32)
         ELSE NoExc

MaterialItemRaises(st) == material_item_exc(st).type # "none"
MaterialItemKept(st) == Truthy(dict_get(st, "name", Null))
MaterialItemMember(st) == dict_get(st, "name", Null).s

\* Line 32: the list of StorageTemperature members (by member name).
material_types_of(sample_types) ==
    IF ~Iterable(sample_types) THEN [exc |-> Raise("TypeError", 32), v |-> <<>>]
    ELSE LET bad == FirstIndex(sample_types.a, MaterialItemRaises)
         IN IF bad # 0
            THEN [exc |-> material_item_exc(sample_types.a[bad]), v |-> <<>>]
            ELSE [exc |-> NoExc,
                  v |-> MapSeq(SelectSeq(sample_types.a, MaterialItemKept),
                               MaterialItemMember)]

\* Line 42, the condition of the conditional expression:
\*   (name := g.get("name")) == "NAV" or "NASK"
\* parses as ((name := ...) == "NAV") or "NASK"; its second operand is the
\* non-empty string "NASK".
gender_is_unknown(nm) == (nm = Str("NAV")) \/ Truthy(Str("NASK"))

\* Line 42: Gender[("UNKNOWN" if <condition> else name).upper()]
gender_of(nm) ==
    LET token == IF gender_is_unknown(nm) THEN Str("UNKNOWN") ELSE nm
    IN IF token.t # "str" THEN [exc |-> Raise("AttributeError", 42), v |-> ""]
       ELSE IF Upper(token.s) \notin GenderNames
            THEN [exc |-> Raise("KeyError", 42), v |-> ""]
            ELSE [exc |-> NoExc, v |-> Upper(token.s)]

SexItemNoGet(g) == ~HasGet(g)
\* Line 44: if g.get("name") is not None
SexItemKept(g) == dict_get(g, "name", Null) # Null
SexItemName(g) == dict_get(g, "name", Null)
SexItemRaises(g) == gender_of(SexItemName(g)).exc.type # "none"
SexItemGender(g) == gender_of(SexItemName(g)).v

\* Lines 41-45: the genders list, and the value the assignment expression
\* `name := g.get("name")` leaves in the builder's local variable `name`
\* (an assignment expression inside a comprehension binds in the enclosing
\* function): the name of the last element that passed the filter.
genders_of(sex, name) ==
    IF ~Iterable(sex) THEN [exc |-> Raise("TypeError", 43), v |-> <<>>, name |-> name]
    ELSE IF FirstIndex(sex.a, SexItemNoGet) # 0
    THEN [exc |-> Raise("AttributeError", 44), v |-> <<>>, name |-> name]
    ELSE LET kept == SelectSeq(sex.a, SexItemKept)
             bad == FirstIndex(kept, SexItemRaises)
         IN IF bad # 0
            THEN [exc |-> gender_of(SexItemName(kept[bad])).exc, v |-> <<>>,
                  name |-> name]
            ELSE [exc |-> NoExc,
                  v |-> MapSeq(kept, SexItemGender),
                  name |-> IF kept = <<>> THEN name
                           ELSE SexItemName(kept[Len(kept)])]

DiagnosisNoGet(d) == ~HasGet(d)
DiagnosisKept(d) == Truthy(dict_get(d, "code", Null))
DiagnosisCode(d) == dict_get(d, "code", Null)

\* Line 50: [d.get("code") for d in diagnoses if d.get("code")]
diagnosis_codes_of(diagnoses) ==
    IF ~Iterable(diagnoses) THEN [exc |-> Raise("TypeError", 50), v |-> <<>>]
    ELSE IF FirstIndex(diagnoses.a, DiagnosisNoGet) # 0
    THEN [exc |-> Raise("AttributeError", 50), v |-> <<>>]
    ELSE [exc |-> NoExc,
          v |-> MapSeq(SelectSeq(diagnoses.a, DiagnosisKept), DiagnosisCode)]

\* Line 53: [m.get("name") for m in material_types if m.get("name")], where
\* material_types holds StorageTemperature members: an Enum member has no
\* .get, so the first element raises AttributeError.
material_type_codes_of(material_types) ==
    IF material_types # <<>> THEN [exc |-> Raise("AttributeError", 53), v |-> <<>>]
    ELSE [exc |-> NoExc, v |-> <<>>]

\* Lines 21-71: the keyword arguments handed to Collection(...), or the
\* exception raised before the call.
collection_kwargs(cj) ==
    LET identifier == dict_get(cj, "id", Str(""))
        name == dict_get(cj, "name", Str(""))
        description == dict_get(cj, "description", Str("unknown"))
        contact_info == dict_get(cj, "contact", EmptyObj)
        country_node == dict_get(cj, "country", EmptyObj)
        sex == dict_get(cj, "sex", EmptyArr)
        age_low == dict_get(cj, "age_low", Null)
        age_high == dict_get(cj, "age_high", Null)
        diagnoses == dict_get(cj, "diagnosis_available", EmptyArr)
        sample_types == dict_get(cj, "materials", EmptyArr)
        biobank_node == dict_get(cj, "biobank", EmptyObj)
        material_types == material_types_of(sample_types)
        genders == genders_of(sex, name)
        diagnosis_codes == diagnosis_codes_of(diagnoses)
        material_type_codes == material_type_codes_of(material_types.v)
    IN IF ~HasGet(country_node) THEN [exc |-> Raise("AttributeError", 25)]
       ELSE IF material_types.exc.type # "none" THEN [exc |-> material_types.exc]
       ELSE IF ~HasGet(biobank_node) THEN [exc |-> Raise("AttributeError", 33)]
       ELSE IF ~HasGet(contact_info) THEN [exc |-> Raise("AttributeError", 36)]
       ELSE IF genders.exc.type # "none" THEN [exc |-> genders.exc]
       ELSE IF diagnosis_codes.exc.type # "none" THEN [exc |-> diagnosis_codes.exc]
       ELSE IF material_type_codes.exc.type # "none"
            THEN [exc |-> material_type_codes.exc]
       ELSE [exc |-> NoExc,
             kw |-> [kind |-> "Collection",
                     identifier |-> identifier,
                     name |-> genders.name,
                     managing_biobank_id |-> dict_get(biobank_node, "id", Str("")),
                     contact_name |-> dict_get(contact_info, "first_name", Str("unknown")),
                     contact_surname |-> dict_get(contact_info, "last_name", Str("unknown")),
                     contact_email |-> dict_get(contact_info, "email", Str("unknown")),
                     country |-> dict_get(country_node, "name", Str("unknown")),
                     genders |-> genders.v,
                     material_types |-> material_type_codes.v,
                     age_range_low |-> age_low,
                     age_range_high |-> age_high,
                     diagnoses |-> diagnosis_codes.v,
                     description |-> description]]

(***************************************************************************)
(* fetch_quality_names and the loop bodies of the other two builders.      *)
(***************************************************************************)
QualityItemNoGet(item) == ~HasGet(item)
QualityStandardNoGet(item) == ~HasGet(dict_get(item, "quality_standard", EmptyObj))
QualityItemRaises(item) == QualityItemNoGet(item) \/ QualityStandardNoGet(item)
QualityItemName(item) ==
    dict_get(dict_get(item, "quality_standard", EmptyObj), "name", Null)
\* Line 87: if name
QualityItemKept(item) == Truthy(QualityItemName(item))

\* Lines 79-89.
fetch_quality_names(quality_data) ==
    IF ~Iterable(quality_data) THEN [exc |-> Raise("TypeError", 84), v |-> <<>>]
    ELSE LET bad == FirstIndex(quality_data.a, QualityItemRaises)
         IN IF bad # 0
            THEN [exc |-> Raise("AttributeError",
                                IF QualityItemNoGet(quality_data.a[bad]) THEN 85 ELSE 86),
                  v |-> <<>>]
            ELSE [exc |-> NoExc,
                  v |-> MapSeq(SelectSeq(quality_data.a, QualityItemKept),
                               QualityItemName)]

\* Lines 141-167: the keyword arguments handed to Biobank(...).
biobank_kwargs(bj) ==
    LET country_node == dict_get(bj, "country", EmptyObj)
        contact_info == dict_get(bj, "contact", EmptyObj)
        quality == fetch_quality_names(dict_get(bj, "quality", EmptyArr))
    IN IF ~HasGet(country_node) THEN [exc |-> Raise("AttributeError", 144)]
       ELSE IF ~HasGet(contact_info) THEN [exc |-> Raise("AttributeError", 149)]
       ELSE IF quality.exc.type # "none" THEN [exc |-> quality.exc]
       ELSE [exc |-> NoExc,
             kw |-> [kind |-> "Biobank",
                     identifier |-> dict_get(bj, "id", Str("")),
                     name |-> dict_get(bj, "name", Str("")),
                     alias |-> dict_get(bj, "acronym", Str("unknown")),
                     country |-> dict_get(country_node, "name", Str("")),
                     contact_name |-> dict_get(contact_info, "first_name", Str("unknown")),
                     contact_surname |-> dict_get(contact_info, "last_name", Str("unknown")),
                     contact_email |-> dict_get(contact_info, "email", Str("unknown")),
                     quality__management_standards |-> quality.v,
                     description |-> dict_get(bj, "description", Str(""))]]

\* str.split(",") on the comma-joined strings of the model's alphabet.
SplitComma(s) ==
    CASE s = "rare diseases,oncology" -> <<Str("rare diseases"), Str("oncology")>>
      [] OTHER -> <<Str(s)>>

\* Line 104: x.get(k, "").split(",") if x.get(k) else []
collaboration_topics_of(nj) ==
    LET elements == dict_get(nj, "common_network_elements", Str(""))
    IN IF ~Truthy(dict_get(nj, "common_network_elements", Null))
       THEN [exc |-> NoExc, v |-> <<>>]
       ELSE IF elements.t # "str" THEN [exc |-> Raise("AttributeError", 104), v |-> <<>>]
       ELSE [exc |-> NoExc, v |-> SplitComma(elements.s)]

\* Lines 98-128: the keyword arguments handed to Network(...).
network_kwargs(nj) ==
    LET contact_info == dict_get(nj, "contact", EmptyObj)
        topics == collaboration_topics_of(nj)
    IN IF topics.exc.type # "none" THEN [exc |-> topics.exc]
       ELSE IF ~HasGet(contact_info) THEN [exc |-> Raise("AttributeError", 107)]
       ELSE [exc |-> NoExc,
             kw |-> [kind |-> "Network",
                     identifier |-> dict_get(nj, "id", Str("")),
                     name |-> dict_get(nj, "name", Str("")),
                     managing_biobank_id |-> Str("bbmri-eric:ID:AT_MUG"),
                     contact_email |-> dict_get(contact_info, "email", Str("unknown")),
                     country |-> dict_get(nj, "national_node", Str("unknown")),
                     juristic_person |-> dict_get(nj, "juridical_person", Str("unknown")),
                     members_collections_ids |-> <<>>,
                     members_biobanks_ids |-> <<>>,
                     contact_name |-> dict_get(contact_info, "first_name", Str("unknown")),
                     contact_surname |-> dict_get(contact_info, "last_name", Str("unknown")),
                     common_collaboration_topics |-> topics.v,
                     description |-> dict_get(nj, "description", Str(""))]]

(***************************************************************************)
(* The three builders.  A builder returns [exc, out, from, printed]: the   *)
(* exception that left it (out is then never returned), the list it        *)
(* returns, the source index of each returned entity, and what it printed. *)
(* The constructors belong to miabis_model; which records its validation   *)
(* refuses is an input: `rejected` is the set of source indices whose      *)
(* constructor call raises ValueError.                                     *)
(***************************************************************************)
NoResult == [exc |-> NoExc, out |-> <<>>, from |-> <<>>, printed |-> <<>>]
Raised(e, acc) == [exc |-> e, out |-> <<>>, from |-> <<>>, printed |-> acc.printed]
Appended(acc, entity, i) ==
    [acc EXCEPT !.out = Append(@, entity), !.from = Append(@, i)]

\* json_data.get("data", {}).get(key, []): the source array (lines 19, 96, 139).
source_array(json_data, key, line) ==
    IF ~HasGet(json_data) THEN [exc |-> Raise("AttributeError", line), v |-> <<>>]
    ELSE IF ~HasGet(dict_get(json_data, "data", EmptyObj))
    THEN [exc |-> Raise("AttributeError", line), v |-> <<>>]
    ELSE LET arr == dict_get(dict_get(json_data, "data", EmptyObj), key, EmptyArr)
         IN IF ~Iterable(arr) THEN [exc |-> Raise("TypeError", line), v |-> <<>>]
            ELSE [exc |-> NoExc, v |-> arr.a]

\* Lines 19-76: the try/except ValueError around Collection(...) skips the
\* record and goes on with the next one.
RECURSIVE collection_loop(_, _, _, _)
collection_loop(recs, rejected, i, acc) ==
    IF i > Len(recs) THEN acc
    ELSE IF ~HasGet(recs[i]) THEN Raised(Raise("AttributeError", 21), acc)
    ELSE LET b == collection_kwargs(recs[i])
         IN IF b.exc.type # "none" THEN Raised(b.exc, acc)
            ELSE IF i \in rejected
            THEN collection_loop(recs, rejected, i + 1,
                     [acc EXCEPT !.printed = Append(@, [msg |-> "Error creating Collection", n |-> i])])
            ELSE collection_loop(recs, rejected, i + 1, Appended(acc, b.kw, i))

populate_collection_from_json(json_str, rejected) ==
    LET arr == source_array(json_loads(json_str), "Collections", 19)
    IN IF arr.exc.type # "none" THEN Raised(arr.exc, NoResult)
       ELSE collection_loop(arr.v, rejected, 1, NoResult)

\* Lines 96-132: Network(...) is called outside any try.
RECURSIVE network_loop(_, _, _, _)
network_loop(recs, rejected, i, acc) ==
    IF i > Len(recs) THEN acc
    ELSE IF ~HasGet(recs[i]) THEN Raised(Raise("AttributeError", 98), acc)
    ELSE LET b == network_kwargs(recs[i])
         IN IF b.exc.type # "none" THEN Raised(b.exc, acc)
            ELSE IF i \in rejected THEN Raised(Raise("ValueError", 115), acc)
            ELSE network_loop(recs, rejected, i + 1, Appended(acc, b.kw, i))

populate_network_from_json(json_data, rejected) ==
    LET arr == source_array(json_data, "Networks", 96)
    IN IF arr.exc.type # "none" THEN Raised(arr.exc, NoResult)
       ELSE network_loop(arr.v, rejected, 1, NoResult)

\* Lines 139-171: Biobank(...) is called outside any try.
RECURSIVE biobank_loop(_, _, _, _)
biobank_loop(recs, rejected, i, acc) ==
    IF i > Len(recs) THEN acc
    ELSE IF ~HasGet(recs[i]) THEN Raised(Raise("AttributeError", 141), acc)
    ELSE LET b == biobank_kwargs(recs[i])
         IN IF b.exc.type # "none" THEN Raised(b.exc, acc)
            ELSE IF i \in rejected THEN Raised(Raise("ValueError", 157), acc)
            ELSE biobank_loop(recs, rejected, i + 1, Appended(acc, b.kw, i))

populate_biobank_from_json(json_data, rejected) ==
    LET arr == source_array(json_data, "Biobanks", 139)
    IN IF arr.exc.type # "none" THEN Raised(arr.exc, NoResult)
       ELSE biobank_loop(arr.v, rejected, 1, NoResult)

(***************************************************************************)
(* The responses the directory service may return: batches of up to        *)
(* MaxRecords records of a few shapes, and single records whose nested     *)
(* nodes and lists (of up to MaxList elements) take every shape: key       *)
(* missing, null, empty mapping, mapping.                                  *)
(***************************************************************************)
Kinds == {"Biobank", "Network", "Collection"}
ArrayKey(k) ==
    CASE k = "Biobank" -> "Biobanks"
      [] k = "Network" -> "Networks"
      [] k = "Collection" -> "Collections"

ListsUpTo(S, n) == UNION {[1..m -> S] : m \in 0..n}
\* The mapping v with key set to val.
With(v, key, val) == Obj((key :> val) @@ v.o)
Named(s) == Obj([name |-> Str(s)])

Contact == Obj([first_name |-> Str("Ada"), last_name |-> Str("Byron"),
                email |-> Str("ada@example.org")])
NodeShapes(full) == {Null, EmptyObj, full}

SexItems == {Null, EmptyObj, Obj([name |-> Null]), Named("NAV"), Named("NASK"),
             Named("FEMALE"), Named("female"), Named("XX")}
MaterialItems == {Null, EmptyObj, Named(""), Named("PLASMA"), Named("DNA"),
                  Named("TEMPERATURE_ROOM")}
DiagnosisItems == {Null, EmptyObj, Obj([code |-> Str("C50")])}
QualityItems == {Null, EmptyObj, Obj([quality_standard |-> Null]),
                 Obj([quality_standard |-> EmptyObj]),
                 Obj([quality_standard |-> Obj([name |-> Null])]),
                 Obj([quality_standard |-> Named("")]),
                 Obj([quality_standard |-> Named("ISO 9001")]),
                 Obj([quality_standard |-> Named("ISO 15189")])}

CollectionBase == Obj([id |-> Str("bbmri-eric:ID:CZ_MMCI:collection:1"),
                       name |-> Str("Cohort A")])
\* The record of the specification's example scenario.
CollectionExample ==
    With(With(With(CollectionBase,
        "sex", Arr(<<Named("NAV"), Named("FEMALE")>>)),
        "age_low", Num(0)),
        "materials", Arr(<<Named("PLASMA")>>))
CollectionCore ==
    {CollectionBase,
     CollectionExample,
     With(CollectionBase, "sex", Arr(<<Named("XX")>>)),
     With(CollectionBase, "materials", Arr(<<Named("PLASMA")>>)),
     With(CollectionBase, "contact", Null),
     With(With(With(With(Obj([id |-> Str("bbmri-eric:ID:CZ_MMCI:collection:2")]),
        "contact", Contact),
        "country", Named("CZ")),
        "biobank", Obj([id |-> Str("bbmri-eric:ID:CZ_MMCI")])),
        "diagnosis_available", Arr(<<Obj([code |-> Str("C50")])>>))}
CollectionVariants ==
    {With(b, "sex", Arr(q)) :
        b \in {CollectionBase, Obj([id |-> Str("bbmri-eric:ID:CZ_MMCI:collection:1")])},
        q \in ListsUpTo(SexItems, MaxList)}
    \cup {With(b, "materials", Arr(q)) :
        b \in {CollectionBase, With(CollectionBase, "age_low", Num(0)),
               With(With(CollectionBase, "age_low", Num(0)), "age_high", Num(90))},
        q \in ListsUpTo(MaterialItems, MaxList)}
    \cup {With(CollectionBase, "diagnosis_available", Arr(q)) :
        q \in ListsUpTo(DiagnosisItems, MaxList)}
    \cup {With(CollectionBase, key, Null) :
        key \in {"sex", "materials", "diagnosis_available", "id", "name"}}
    \cup {With(CollectionBase, "contact", v) : v \in NodeShapes(Contact)}
    \cup {With(CollectionBase, "country", v) : v \in NodeShapes(Named("CZ"))}
    \cup {With(CollectionBase, "biobank", v) :
        v \in NodeShapes(Obj([id |-> Str("bbmri-eric:ID:CZ_MMCI")]))}

BiobankBase == Obj([id |-> Str("bbmri-eric:ID:CZ_MMCI"), name |-> Str("MMCI"),
                    country |-> Named("CZ")])
BiobankCore ==
    {BiobankBase,
     With(BiobankBase, "quality", EmptyArr),
     With(BiobankBase, "quality", Arr(<<Obj([quality_standard |-> Named("ISO 9001")]),
                                        EmptyObj,
                                        Obj([quality_standard |-> Named("ISO 15189")])>>)),
     With(BiobankBase, "contact", Null),
     With(With(Obj([id |-> Str("bbmri-eric:ID:AT_MUG")]), "contact", Contact),
          "acronym", Str("MUG"))}
BiobankVariants ==
    {With(BiobankBase, "quality", Arr(q)) : q \in ListsUpTo(QualityItems, MaxList)}
    \cup {With(BiobankBase, key, Null) : key \in {"quality", "id"}}
    \cup {With(BiobankBase, "contact", v) : v \in NodeShapes(Contact)}
    \cup {With(BiobankBase, "country", v) : v \in NodeShapes(Named("CZ"))}

NetworkBase == Obj([id |-> Str("bbmri-eric:networkID:EU_BBMRI-ERIC:networks:1"),
                    name |-> Str("Rare diseases")])
NetworkCore ==
    {NetworkBase,
     With(NetworkBase, "contact", Contact),
     With(NetworkBase, "contact", Null),
     With(NetworkBase, "common_network_elements", Str("rare diseases,oncology"))}
NetworkVariants ==
    {With(NetworkBase, "contact", v) : v \in NodeShapes(Contact)}
    \cup {With(NetworkBase, "common_network_elements", v) :
            v \in {Null, Str(""), Str("oncology"), Str("rare diseases,oncology")}}

Core(k) ==
    CASE k = "Biobank" -> BiobankCore
      [] k = "Network" -> NetworkCore
      [] k = "Collection" -> CollectionCore
Variants(k) ==
    CASE k = "Biobank" -> BiobankVariants
      [] k = "Network" -> NetworkVariants
      [] k = "Collection" -> CollectionVariants

SourceArrays(k) == ListsUpTo(Core(k), MaxRecords) \cup {<<r>> : r \in Variants(k)}

\* The body {"data": {"<Kind>s": [...]}} of a 200 response.
Body(k, recs) == Obj([data |-> Obj((ArrayKey(k) :> Arr(recs)))])
Responses(k) == {Body(k, recs) : recs \in SourceArrays(k)} \cup {EmptyObj}

(***************************************************************************)
(* One run of sync_biobanks / sync_networks / sync_collections.            *)
(***************************************************************************)
VARIABLES
    kind,       \* which of the three sync functions runs
    pc,         \* idle, fetching, mapping, publishing, done, failed, crashed
    response,   \* what requests.post returned: [status, json, text]
    rejected,   \* source indices whose constructor call raises ValueError
    ret,        \* what the builder returned
    j,          \* position of the upload loop in ret.out
    uploads,    \* the upload calls made so far, in order
    printed,    \* what the run printed, in order
    exc,        \* the exception that left the sync function, if any
    posts       \* number of POST requests issued

vars == <<kind, pc, response, rejected, ret, j, uploads, printed, exc, posts>>

NoResponse == [status |-> 0, json |-> Null, text |-> ""]
\* Status codes other than 200 that the service may answer with.
OtherStatuses == {201, 404, 503}
ErrorTexts == {"Service Unavailable"}

\* The line of each sync function's requests.post call and upload call.
PostLine(k) ==
    CASE k = "Biobank" -> 260 [] k = "Network" -> 318 [] k = "Collection" -> 339
UploadLine(k) ==
    CASE k = "Biobank" -> 275 [] k = "Network" -> 333 [] k = "Collection" -> 353

\* Lines 270, 328, 349: the builder each sync function calls; only
\* sync_collections re-encodes the decoded response for its builder.
populate(k, json_data, rej) ==
    CASE k = "Biobank" -> populate_biobank_from_json(json_data, rej)
      [] k = "Network" -> populate_network_from_json(json_data, rej)
      [] k = "Collection" -> populate_collection_from_json(json_dumps(json_data), rej)

\* Lines 273, 331, 352: `for entity in entities` visits the list in order.
loop_item_reversed(out, n) == out[Len(out) + 1 - n]
loop_item(out, n) == out[n]

Init ==
    /\ kind \in Kinds
    /\ pc = "idle"
    /\ response = NoResponse
    /\ rejected = {}
    /\ ret = NoResult
    /\ j = 0
    /\ uploads = <<>>
    /\ printed = <<>>
    /\ exc = NoExc
    /\ posts = 0

\* The sync function is called.
Call ==
    /\ pc = "idle"
    /\ pc' = "fetching"
    /\ UNCHANGED <<kind, response, rejected, ret, j, uploads, printed, exc, posts>>

\* requests.post returns status 200 with a JSON body (lines 260-267).
PostReturns200 ==
    /\ pc = "fetching"
    /\ \E body \in Responses(kind) :
         \E rej \in SUBSET (1..Len(source_array(body, ArrayKey(kind), 0).v)) :
            /\ response' = [status |-> 200, json |-> body, text |-> "json"]
            /\ rejected' = rej
    /\ posts' = posts + 1
    /\ pc' = "mapping"
    /\ UNCHANGED <<kind, ret, j, uploads, printed, exc>>

\* requests.post returns another status: the else branch prints and the
\* function returns (lines 277-278, 335-336, 355-356).
PostReturnsOther ==
    /\ pc = "fetching"
    /\ \E st \in OtherStatuses, txt \in ErrorTexts :
         /\ response' = [status |-> st, json |-> Null, text |-> txt]
         /\ printed' = Append(printed, [msg |-> "Failed to fetch data", n |-> st, text |-> txt])
    /\ posts' = posts + 1
    /\ pc' = "failed"
    /\ UNCHANGED <<kind, rejected, ret, j, uploads, exc>>

\* requests.post raises (connection refused, DNS failure, ...): the call is
\* in no try block, the exception leaves the sync function.
PostRaises ==
    /\ pc = "fetching"
    /\ posts' = posts + 1
    /\ exc' = Raise("ConnectionError", PostLine(kind))
    /\ pc' = "crashed"
    /\ UNCHANGED <<kind, response, rejected, ret, j, uploads, printed>>

\* The builder runs on the decoded response (lines 267-270).
Populate ==
    /\ pc = "mapping"
    /\ LET r == populate(kind, response.json, rejected)
       IN /\ ret' = r
          /\ printed' = printed \o r.printed
          /\ IF r.exc.type # "none"
             THEN /\ exc' = r.exc
                  /\ pc' = "crashed"
                  /\ j' = j
             ELSE /\ exc' = exc
                  /\ pc' = "publishing"
                  /\ j' = 1
    /\ UNCHANGED <<kind, response, rejected, uploads, posts>>

\* One iteration of the upload loop (lines 273-276, 331-334, 352-354):
\* the call returns, or it raises and the exception leaves the loop and the
\* sync function.
Upload ==
    /\ pc = "publishing"
    /\ j <= Len(ret.out)
    /\ printed' = IF kind = "Collection" THEN printed
                  ELSE Append(printed, [msg |-> "fhir", n |-> j, text |-> ""])
    /\ \E outcome \in {"returns", "raises"} :
         /\ uploads' = Append(uploads, [entity |-> loop_item(ret.out, j),
                                        from |-> loop_item(ret.from, j),
                                        outcome |-> outcome])
         /\ IF outcome = "returns"
            THEN /\ j' = j + 1
                 /\ UNCHANGED <<pc, exc>>
            ELSE /\ exc' = Raise("HTTPError", UploadLine(kind))
                 /\ pc' = "crashed"
                 /\ j' = j
    /\ UNCHANGED <<kind, response, rejected, ret, posts>>

\* The upload loop is exhausted: the sync function returns.
LoopEnd ==
    /\ pc = "publishing"
    /\ j > Len(ret.out)
    /\ pc' = "done"
    /\ UNCHANGED <<kind, response, rejected, ret, j, uploads, printed, exc, posts>>

Next ==
    \/ Call
    \/ PostReturns200
    \/ PostReturnsOther
    \/ PostRaises
    \/ Populate
    \/ Upload
    \/ LoopEnd

Spec == Init /\ [][Next]_vars

(***************************************************************************)
(* Properties.                                                             *)
(***************************************************************************)
\* The source array of the fetched response (empty before the fetch).
SourceRecords == source_array(response.json, ArrayKey(kind), 0).v
Fetched == response.status = 200
\* The builder has been called / has returned its list.
BuilderCalled == pc \in {"publishing", "done"} \/ (pc = "crashed" /\ exc.type # "ConnectionError")
BuilderReturned == pc \in {"publishing", "done"} \/ (pc = "crashed" /\ exc.type = "HTTPError")
KwargsOf(k, r) ==
    CASE k = "Biobank" -> biobank_kwargs(r)
      [] k = "Network" -> network_kwargs(r)
      [] k = "Collection" -> collection_kwargs(r)
\* Record i reaches its constructor and the constructor accepts it.
MapsSuccessfully(i) ==
    /\ KwargsOf(kind, SourceRecords[i]).exc.type = "none"
    /\ i \notin rejected
Range(q) == {q[i] : i \in 1..Len(q)}

\* C1: given N source records of which exactly K < N fail the library's
\* validation at construction (and nothing else goes wrong), each of the
\* three builders returns exactly the N-K entities of the other records.
C1_PartialFailureBatch ==
    (BuilderCalled
        /\ Cardinality(rejected) < Len(SourceRecords)
        /\ \A i \in 1..Len(SourceRecords) :
              KwargsOf(kind, SourceRecords[i]).exc.type = "none")
    => /\ ret.exc.type = "none"
       /\ Len(ret.out) = Len(SourceRecords) - Cardinality(rejected)
       /\ Range(ret.from) = (1..Len(SourceRecords)) \ rejected
       /\ \A a \in 1..Len(ret.out) :
             ret.out[a] = KwargsOf(kind, SourceRecords[ret.from[a]]).kw

\* C2: in a run that ends in Done, the upload calls are exactly the
\* entities the builder returned, in the same order and once each, and those
\* are the entities of the source records that mapped successfully, in the
\* order of the source array.
C2_PublishedInOrderExactlyOnce ==
    pc = "done"
    => /\ Len(uploads) = Len(ret.out)
       /\ \A a \in 1..Len(uploads) :
             /\ uploads[a].entity = ret.out[a]
             /\ uploads[a].entity = KwargsOf(kind, SourceRecords[uploads[a].from]).kw
       /\ \A a, b \in 1..Len(uploads) : a < b => uploads[a].from < uploads[b].from
       /\ {uploads[a].from : a \in 1..Len(uploads)}
            = {i \in 1..Len(SourceRecords) : MapsSuccessfully(i)}

\* A finished sync_collections run in which the library refused a record and
\* two different entities were uploaded.
C2_Witness ==
    /\ pc = "done"
    /\ kind = "Collection"
    /\ rejected # {}
    /\ Len(uploads) >= 2
    /\ uploads[1].entity # uploads[2].entity

\* C3: when the POST fails (a non-2xx status or a transport error) the run
\* ends in Reported-Failed with status and body printed, the builder is not
\* called, nothing is uploaded and no second POST is made.
FetchFailed ==
    \/ (response.status # 0 /\ (response.status < 200 \/ response.status > 299))
    \/ exc.type = "ConnectionError"
C3_FetchFailureHandling ==
    FetchFailed
    => /\ pc = "failed"
       /\ printed = <<[msg |-> "Failed to fetch data", n |-> response.status,
                       text |-> response.text]>>
       /\ ret = NoResult
       /\ uploads = <<>>
       /\ posts = 1

\* C4: a failed upload is reported and does not end the run: the run stays
\* in Publishing until every entity has been tried and then reaches Done.
C4_PublishFailureIndependence ==
    (\E a \in 1..Len(uploads) : uploads[a].outcome = "raises")
    => /\ pc \in {"publishing", "done"}
       /\ pc = "done" => Len(uploads) = Len(ret.out)

\* C5: reading a nested optional path never raises, whether a key of the
\* path is missing or a node on it is not a mapping; where the contact node
\* is missing or not a mapping the contact fields take their default.
OptionalPathLines == {25, 32, 33, 36, 44, 50, 85, 86, 107, 144, 149}
C5_DefaultingTotality ==
    Fetched
    => \A i \in 1..Len(SourceRecords) :
          LET r == SourceRecords[i]
              k == KwargsOf(kind, r)
              contact == dict_get(r, "contact", EmptyObj)
          IN /\ ~(k.exc.type = "AttributeError" /\ k.exc.line \in OptionalPathLines)
             /\ ~HasGet(contact)
                  => k.exc.type = "none" /\ k.kw.contact_name = Str("unknown")

\* C6: gender normalisation follows the stated policy for every token:
\* NAV and NASK give UNKNOWN, a member name in any case gives that member,
\* any other token fails.
GenderPolicy(tok) ==
    IF tok \in {"NAV", "NASK"} THEN "UNKNOWN"
    ELSE IF Upper(tok) \in GenderNames THEN Upper(tok)
    ELSE "unmappable"
SexTokens(r) ==
    LET sex == dict_get(r, "sex", EmptyArr)
    IN IF ~Iterable(sex) THEN {}
       ELSE {dict_get(g, "name", Null).s :
                g \in {x \in Range(sex.a) : HasGet(x) /\ dict_get(x, "name", Null).t = "str"}}
C6_GenderNormalization ==
    (kind = "Collection" /\ Fetched)
    => \A i \in 1..Len(SourceRecords) :
          \A tok \in SexTokens(SourceRecords[i]) :
             IF GenderPolicy(tok) = "unmappable"
             THEN gender_of(Str(tok)).exc.type # "none"
             ELSE gender_of(Str(tok)) = [exc |-> NoExc, v |-> GenderPolicy(tok)]

\* C7: a collection record with a gender or material token outside the
\* enumeration it is looked up in yields no entity, the builder still
\* returns, and the other records of the batch are returned.
MaterialTokens(r) ==
    LET m == dict_get(r, "materials", EmptyArr)
    IN IF ~Iterable(m) THEN {}
       ELSE {dict_get(g, "name", Null).s :
                g \in {x \in Range(m.a) : HasGet(x) /\ dict_get(x, "name", Null).t = "str"
                                          /\ Truthy(dict_get(x, "name", Null))}}
Unresolvable(r) ==
    \/ \E tok \in SexTokens(r) : GenderPolicy(tok) = "unmappable"
    \/ \E tok \in MaterialTokens(r) : tok \notin StorageTemperatureNames
C7_UnresolvableEnumSkipsRecord ==
    (kind = "Collection" /\ BuilderCalled)
    => \A i \in 1..Len(SourceRecords) :
          Unresolvable(SourceRecords[i])
          => /\ ret.exc.type = "none"
             /\ i \notin Range(ret.from)
             /\ \A o \in 1..Len(SourceRecords) :
                   (~Unresolvable(SourceRecords[o]) /\ MapsSuccessfully(o))
                   => o \in Range(ret.from)

\* C8: a collection record with a non-empty list of named materials,
\* age_low = 0 and no age_high maps to an entity whose material types are
\* the material names in source order and whose age range is (0, None).
MaterialNames == {"PLASMA", "DNA"}
MaterialsRecord(r) ==
    LET m == dict_get(r, "materials", EmptyArr)
    IN /\ Iterable(m)
       /\ m.a # <<>>
       /\ \A x \in Range(m.a) : HasGet(x) /\ dict_get(x, "name", Null).t = "str"
                                /\ dict_get(x, "name", Null).s \in MaterialNames
       /\ dict_get(r, "age_low", Null) = Num(0)
       /\ "age_high" \notin DOMAIN r.o
MaterialNameOf(x) == dict_get(x, "name", Null)
C8_MaterialTypesAndAgeRange ==
    (kind = "Collection" /\ Fetched)
    => \A i \in 1..Len(SourceRecords) :
          MaterialsRecord(SourceRecords[i])
          => LET k == collection_kwargs(SourceRecords[i])
             IN /\ k.exc.type = "none"
                /\ k.kw.material_types
                     = MapSeq(dict_get(SourceRecords[i], "materials", EmptyArr).a,
                              MaterialNameOf)
                /\ k.kw.age_range_low = Num(0)
                /\ k.kw.age_range_high = Null

\* C9: for any quality array the quality-standards list is the sequence of
\* the quality_standard.name values of the entries that have one, in source
\* order; entries without that name add nothing and nothing is raised.
HasQualityName(item) ==
    /\ HasGet(item)
    /\ HasGet(dict_get(item, "quality_standard", Null))
    /\ Truthy(dict_get(dict_get(item, "quality_standard", Null), "name", Null))
QualityNameOf(item) == dict_get(dict_get(item, "quality_standard", Null), "name", Null)
C9_QualityStandards ==
    (kind = "Biobank" /\ Fetched)
    => \A i \in 1..Len(SourceRecords) :
          LET q == dict_get(SourceRecords[i], "quality", EmptyArr)
          IN Iterable(q)
             => fetch_quality_names(q)
                  = [exc |-> NoExc,
                     v |-> MapSeq(SelectSeq(q.a, HasQualityName), QualityNameOf)]

\* C10: the name and identifier of every constructed Collection are the
\* record's own "name" and "id" fields (or "" when absent), whatever its sex
\* list holds.
C10_NameIndependentOfSex ==
    (kind = "Collection" /\ BuilderReturned)
    => \A a \in 1..Len(ret.out) :
          /\ ret.out[a].name = dict_get(SourceRecords[ret.from[a]], "name", Str(""))
          /\ ret.out[a].identifier = dict_get(SourceRecords[ret.from[a]], "id", Str(""))

====
